---- MODULE Spec2Model ----
(***************************************************************************)
(* Admin Assassin (src/app.py): a Streamlit script that sends a therapy    *)
(* transcript to a completion endpoint, decodes the JSON reply, keeps the  *)
(* decoded results in st.session_state.history, and renders the result     *)
(* st.session_state.last_result points at.                                 *)
(*                                                                         *)
(* Every user interaction re-runs the script top to bottom; one action of  *)
(* this model is one such run (sidebar, generation logic, rendering).      *)
(*                                                                         *)
(* Text is a sequence of one-character strings.  The characters that occur *)
(* are letters, "_", space, newline, the JSON punctuation, the backtick    *)
(* and the HTML-significant characters; digits, "-" and the backslash do   *)
(* not occur in a reply, so JSON numbers and string escapes are outside    *)
(* the model.  A character that a TLA+ string cannot hold is written as    *)
(* its name ("BACKTICK", "EM_DASH").                                       *)
(***************************************************************************)
EXTENDS Integers, Sequences, FiniteSets, TLC

VARIABLES history, last_result, page, returned

vars == <<history, last_result, page, returned>>

-----------------------------------------------------------------------------
(* str methods the script uses, on text.                                    *)

\* The characters str.strip() removes, among the characters of the model.
PyWhitespace == {" ", "\n", "\t", "\r"}

RECURSIVE LStripIndex(_, _), RStripIndex(_, _)

\* The index of the first character at or after i that strip() keeps.
LStripIndex(s, i) ==
    IF i <= Len(s) /\ s[i] \in PyWhitespace THEN LStripIndex(s, i + 1) ELSE i

\* The index of the last character at or before i that strip() keeps.
RStripIndex(s, i) ==
    IF i >= 1 /\ s[i] \in PyWhitespace THEN RStripIndex(s, i - 1) ELSE i

\* str.strip()
Strip(s) ==
    LET first == LStripIndex(s, 1)
        last == RStripIndex(s, Len(s))
    IN  IF first > last THEN <<>> ELSE SubSeq(s, first, last)

\* str.startswith(p)
StartsWith(s, p) == Len(s) >= Len(p) /\ SubSeq(s, 1, Len(p)) = p

\* The indices at which sep starts in s.
Occurrences(s, sep) ==
    {i \in 1..(Len(s) - Len(sep) + 1) : SubSeq(s, i, i + Len(sep) - 1) = sep}

\* str.find(sep): where sep first starts; 0 when nowhere.
Find(s, sep) ==
    LET occ == Occurrences(s, sep)
    IN  IF occ = {} THEN 0 ELSE CHOOSE i \in occ : \A j \in occ : i <= j

\* str.rfind(sep): where sep last starts; 0 when nowhere.
RFind(s, sep) ==
    LET occ == Occurrences(s, sep)
    IN  IF occ = {} THEN 0 ELSE CHOOSE i \in occ : \A j \in occ : i >= j

\* str.split(sep, 1): one part when sep does not occur, else the text before
\* and the text after the first occurrence.
Split1(s, sep) ==
    LET i == Find(s, sep)
    IN  IF i = 0 THEN <<s>>
        ELSE <<SubSeq(s, 1, i - 1), SubSeq(s, i + Len(sep), Len(s))>>

\* str.rsplit(sep, 1): as Split1, at the last occurrence.
RSplit1(s, sep) ==
    LET i == RFind(s, sep)
    IN  IF i = 0 THEN <<s>>
        ELSE <<SubSeq(s, 1, i - 1), SubSeq(s, i + Len(sep), Len(s))>>

-----------------------------------------------------------------------------
(* Python values as json.loads produces them.  None is JSON null.          *)

JNull == [t |-> "null", v |-> <<>>]

JBool(b) == [t |-> "bool", v |-> b]

JStr(s) == [t |-> "str", v |-> s]

JArr(s) == [t |-> "arr", v |-> s]

\* A dict: a function from keys (texts) to values.
JObj(f) == [t |-> "obj", v |-> f]

None == JNull

IsDict(x) == x.t = "obj"

\* Python truthiness: `if x:`.
Truthy(x) ==
    CASE x.t = "null" -> FALSE
      [] x.t = "bool" -> x.v
      [] x.t = "str"  -> x.v # <<>>
      [] x.t = "arr"  -> x.v # <<>>
      [] x.t = "obj"  -> DOMAIN x.v # {}

\* dict.get(key, default)
Get(d, key, default) == IF key \in DOMAIN d.v THEN d.v[key] ELSE default

-----------------------------------------------------------------------------
(* json.loads on the characters of the model: objects, arrays, strings and *)
(* the literals null, true, false.  Every failure is a JSONDecodeError.    *)

JsonWhitespace == {" ", "\n", "\t", "\r"}

\* Control characters, which a JSON string may not hold unescaped.
ControlChars == {"\n", "\t", "\r"}

Quote == "\""

JFail == [ok |-> FALSE, val |-> JNull, end |-> 0]

JOk(val, end) == [ok |-> TRUE, val |-> val, end |-> end]

RECURSIVE SkipWs(_, _), ClosingQuote(_, _)

\* The index of the first character at or after i that is not whitespace
\* (Len(s) + 1 when there is none).
SkipWs(s, i) ==
    IF i <= Len(s) /\ s[i] \in JsonWhitespace THEN SkipWs(s, i + 1) ELSE i

\* The index of the first quote at or after i that ends a string whose
\* characters up to it are allowed in one; 0 when there is none.
ClosingQuote(s, i) ==
    IF i > Len(s) \/ s[i] \in ControlChars THEN 0
    ELSE IF s[i] = Quote THEN i
    ELSE ClosingQuote(s, i + 1)

\* A string literal whose opening quote is s[i].
ScanString(s, i) ==
    LET j == ClosingQuote(s, i + 1)
    IN  IF j = 0 THEN JFail ELSE JOk(JStr(SubSeq(s, i + 1, j - 1)), j + 1)

LitNull == <<"n", "u", "l", "l">>

LitTrue == <<"t", "r", "u", "e">>

LitFalse == <<"f", "a", "l", "s", "e">>

AtLiteral(s, i, lit) ==
    i + Len(lit) - 1 <= Len(s) /\ SubSeq(s, i, i + Len(lit) - 1) = lit

RECURSIVE ParseValue(_, _), ParseMembers(_, _, _), ParseElements(_, _, _)

\* scan_once: the value that starts at s[i].
ParseValue(s, i) ==
    IF i > Len(s) THEN JFail
    ELSE IF s[i] = Quote THEN ScanString(s, i)
    ELSE IF s[i] = "{" THEN
        LET j == SkipWs(s, i + 1)
        IN  IF j <= Len(s) /\ s[j] = "}" THEN JOk(JObj(<<>>), j + 1)
            ELSE ParseMembers(s, j, <<>>)
    ELSE IF s[i] = "[" THEN
        LET j == SkipWs(s, i + 1)
        IN  IF j <= Len(s) /\ s[j] = "]" THEN JOk(JArr(<<>>), j + 1)
            ELSE ParseElements(s, j, <<>>)
    ELSE IF AtLiteral(s, i, LitNull) THEN JOk(JNull, i + Len(LitNull))
    ELSE IF AtLiteral(s, i, LitTrue) THEN JOk(JBool(TRUE), i + Len(LitTrue))
    ELSE IF AtLiteral(s, i, LitFalse) THEN JOk(JBool(FALSE), i + Len(LitFalse))
    ELSE JFail

\* JSONObject: the members from s[i] on, acc the ones read so far; a key
\* read again replaces the earlier one.
ParseMembers(s, i, acc) ==
    IF i > Len(s) \/ s[i] # Quote THEN JFail
    ELSE LET key == ScanString(s, i)
         IN  IF ~key.ok THEN JFail
             ELSE LET c == SkipWs(s, key.end)
                  IN  IF c > Len(s) \/ s[c] # ":" THEN JFail
                      ELSE LET val == ParseValue(s, SkipWs(s, c + 1))
                           IN  IF ~val.ok THEN JFail
                               ELSE LET m == SkipWs(s, val.end)
                                        got == (key.val.v :> val.val) @@ acc
                                    IN  IF m > Len(s) THEN JFail
                                        ELSE IF s[m] = "}" THEN JOk(JObj(got), m + 1)
                                        ELSE IF s[m] = "," THEN
                                            ParseMembers(s, SkipWs(s, m + 1), got)
                                        ELSE JFail

\* JSONArray: the elements from s[i] on.
ParseElements(s, i, acc) ==
    LET val == ParseValue(s, i)
    IN  IF ~val.ok THEN JFail
        ELSE LET m == SkipWs(s, val.end)
                 got == Append(acc, val.val)
             IN  IF m > Len(s) THEN JFail
                 ELSE IF s[m] = "]" THEN JOk(JArr(got), m + 1)
                 ELSE IF s[m] = "," THEN ParseElements(s, SkipWs(s, m + 1), got)
                 ELSE JFail

\* json.loads(s): one value, whitespace around it, nothing else.
Loads(s) ==
    LET val == ParseValue(s, SkipWs(s, 1))
    IN  IF val.ok /\ SkipWs(s, val.end) = Len(s) + 1 THEN val ELSE JFail

-----------------------------------------------------------------------------
(* The generation logic's handling of the reply text (lines 661-665).      *)

Backtick == "BACKTICK"

Fence == <<Backtick, Backtick, Backtick>>

Newline == <<"\n">>

\* StripFences cutting at the first fence after the opening line, not the last.
StripFencesAtFirstFence(raw) ==
    LET parts == Split1(raw, Newline)
    IN  IF Len(parts) < 2 THEN [exc |-> "IndexError", raw |-> raw]
        ELSE [exc |-> "none", raw |-> Split1(parts[2], Fence)[1]]

\* raw.split("\n", 1)[1].rsplit(Fence, 1)[0]; [1] of a one-part split raises
\* IndexError.
StripFences(raw) ==
    LET parts == Split1(raw, Newline)
    IN  IF Len(parts) < 2 THEN [exc |-> "IndexError", raw |-> raw]
        ELSE [exc |-> "none", raw |-> RSplit1(parts[2], Fence)[1]]

\* From response.content[0].text to json.loads(raw): the exception raised
\* ("none" when none is) and the decoded result.
ParseResponse(text) ==
    LET raw0 == Strip(text)
        unfenced == IF StartsWith(raw0, Fence) THEN StripFences(raw0)
                    ELSE [exc |-> "none", raw |-> raw0]
    IN  IF unfenced.exc # "none"
        THEN [exc |-> unfenced.exc, result |-> None]
        ELSE LET decoded == Loads(unfenced.raw)
             IN  IF decoded.ok THEN [exc |-> "none", result |-> decoded.val]
                 ELSE [exc |-> "JSONDecodeError", result |-> None]

-----------------------------------------------------------------------------
(* The keys of the reply, as SYSTEM_PROMPT names them and as the rendering *)
(* code reads them.                                                        *)

K_risk_detected ==
    <<"r", "i", "s", "k", "_", "d", "e", "t", "e", "c", "t", "e", "d">>

K_risk_content ==
    <<"r", "i", "s", "k", "_", "c", "o", "n", "t", "e", "n", "t">>

K_hot_thought ==
    <<"h", "o", "t", "_", "t", "h", "o", "u", "g", "h", "t">>

K_maintenance_cycle ==
    <<"m", "a", "i", "n", "t", "e", "n", "a", "n", "c", "e", "_", "c", "y", "c", "l", "e">>

K_safety_behaviours ==
    <<"s", "a", "f", "e", "t", "y", "_", "b", "e", "h", "a", "v", "i", "o", "u", "r", "s">>

K_soap_note ==
    <<"s", "o", "a", "p", "_", "n", "o", "t", "e">>

K_subjective ==
    <<"s", "u", "b", "j", "e", "c", "t", "i", "v", "e">>

K_objective ==
    <<"o", "b", "j", "e", "c", "t", "i", "v", "e">>

K_assessment ==
    <<"a", "s", "s", "e", "s", "s", "m", "e", "n", "t">>

K_plan ==
    <<"p", "l", "a", "n">>

K_gp_letter ==
    <<"g", "p", "_", "l", "e", "t", "t", "e", "r">>

K_risk_summary ==
    <<"r", "i", "s", "k", "_", "s", "u", "m", "m", "a", "r", "y">>

-----------------------------------------------------------------------------
(* safe() and the output rendering (lines 50-54 and 679-770).              *)

EmDash == "EM_DASH"

Placeholder == <<EmDash>>

RiskFallback ==
    <<"R", "i", "s", "k", " ", "p", "h", "r", "a", "s", "e", " ", "n", "o", "t", " ",
      "e", "x", "t", "r", "a", "c", "t", "e", "d">>

\* html.escape of one character (quote=True).
EscapeChar(c) ==
    CASE c = "&"   -> <<"&", "a", "m", "p", ";">>
      [] c = "<"   -> <<"&", "l", "t", ";">>
      [] c = ">"   -> <<"&", "g", "t", ";">>
      [] c = Quote -> <<"&", "q", "u", "o", "t", ";">>
      [] c = "'"   -> <<"&", "#", "x", "2", "7", ";">>
      [] OTHER     -> <<c>>

RECURSIVE HtmlEscape(_)

\* html.escape(s)
HtmlEscape(s) ==
    IF s = <<>> THEN <<>> ELSE EscapeChar(Head(s)) \o HtmlEscape(Tail(s))

\* str(x) for the strings and booleans a field may hold.
PyStr(x) ==
    CASE x.t = "str" -> x.v
      [] x.t = "bool" -> IF x.v THEN <<"T", "r", "u", "e">>
                         ELSE <<"F", "a", "l", "s", "e">>

\* safe(text)
Safe(text) == IF text = None THEN Placeholder ELSE HtmlEscape(PyStr(text))

\* What a run puts on the page below the input: the banner, the four cards
\* in the order the script writes them, and the exception that ended the
\* rendering, if one did.
BlankView ==
    [banner |-> FALSE, risk_quote |-> <<>>,
     soap_card |-> FALSE, subjective |-> <<>>, objective |-> <<>>,
     assessment |-> <<>>, plan |-> <<>>,
     gp_card |-> FALSE, gp_letter |-> <<>>,
     formulation_card |-> FALSE, hot_thought |-> <<>>,
     maintenance_cycle |-> <<>>, safety_behaviours |-> <<>>,
     risk_card |-> FALSE, badge |-> "none", risk_summary |-> <<>>,
     exception |-> "none"]

\* Lines 683-690: the banner is written when r.get("risk_detected") is truthy.
RiskBanner(r) == Truthy(Get(r, K_risk_detected, None))

\* Line 688
RiskQuote(r) == Safe(Get(r, K_risk_content, JStr(RiskFallback)))

\* Lines 756-760
RiskBadge(r) == IF Truthy(Get(r, K_risk_detected, None)) THEN "risk" ELSE "safe"

\* Line 698
SoapNote(r) == Get(r, K_soap_note, JObj(<<>>))

\* Lines 722-726
GpLetter(r) == Safe(Get(r, K_gp_letter, JStr(<<>>)))

\* Lines 761-766
RiskSummary(r) == Safe(Get(r, K_risk_summary, JStr(Placeholder)))

\* Lines 679-770 for st.session_state.last_result = r.
Render(r) ==
    IF ~Truthy(r) THEN BlankView
    ELSE IF ~IsDict(r) THEN [BlankView EXCEPT !.exception = "AttributeError"]
    ELSE
        LET withBanner ==
                [BlankView EXCEPT
                    !.banner = RiskBanner(r),
                    !.risk_quote = IF RiskBanner(r) THEN RiskQuote(r) ELSE <<>>]
            soap == SoapNote(r)
        IN  IF ~IsDict(soap)
            THEN [withBanner EXCEPT !.exception = "AttributeError"]
            ELSE [withBanner EXCEPT
                    !.soap_card = TRUE,
                    !.subjective = Safe(Get(soap, K_subjective, None)),
                    !.objective = Safe(Get(soap, K_objective, None)),
                    !.assessment = Safe(Get(soap, K_assessment, None)),
                    !.plan = Safe(Get(soap, K_plan, None)),
                    !.gp_card = TRUE,
                    !.gp_letter = GpLetter(r),
                    !.formulation_card = TRUE,
                    !.hot_thought = Safe(Get(r, K_hot_thought, None)),
                    !.maintenance_cycle = Safe(Get(r, K_maintenance_cycle, None)),
                    !.safety_behaviours = Safe(Get(r, K_safety_behaviours, None)),
                    !.risk_card = TRUE,
                    !.badge = RiskBadge(r),
                    !.risk_summary = RiskSummary(r)]

-----------------------------------------------------------------------------
(* The replies the completion call is given to return: results in the      *)
(* shape SYSTEM_PROMPT asks for, written as JSON text the way json.dumps   *)
(* writes it, plain or inside a fence.                                     *)

KeyOrder ==
    <<K_risk_detected, K_risk_content, K_hot_thought, K_maintenance_cycle,
      K_safety_behaviours, K_soap_note, K_subjective, K_objective,
      K_assessment, K_plan, K_gp_letter, K_risk_summary>>

RECURSIVE Dumps(_), DumpsMembers(_, _), DumpsElements(_)

\* The JSON text of a value.
Dumps(x) ==
    CASE x.t = "null" -> LitNull
      [] x.t = "bool" -> IF x.v THEN LitTrue ELSE LitFalse
      [] x.t = "str"  -> <<Quote>> \o x.v \o <<Quote>>
      [] x.t = "arr"  -> <<"[">> \o DumpsElements(x.v) \o <<"]">>
      [] x.t = "obj"  ->
            <<"{">>
            \o DumpsMembers(x.v, SelectSeq(KeyOrder, LAMBDA k : k \in DOMAIN x.v))
            \o <<"}">>

DumpsMembers(f, keys) ==
    IF keys = <<>> THEN <<>>
    ELSE <<Quote>> \o Head(keys) \o <<Quote, ":", " ">> \o Dumps(f[Head(keys)])
         \o (IF Tail(keys) = <<>> THEN <<>>
             ELSE <<",", " ">> \o DumpsMembers(f, Tail(keys)))

DumpsElements(xs) ==
    IF xs = <<>> THEN <<>>
    ELSE Dumps(Head(xs))
         \o (IF Tail(xs) = <<>> THEN <<>> ELSE <<",", " ">> \o DumpsElements(Tail(xs)))

\* The ways a reply is fenced: the language tag after the opening fence,
\* the whitespace around the whole, the text between the JSON and the
\* closing fence.
FenceForms ==
    {[tag |-> <<"j", "s", "o", "n">>, lead |-> <<>>, gap |-> <<"\n">>, trail |-> <<>>],
     [tag |-> <<>>, lead |-> <<>>, gap |-> <<>>, trail |-> <<>>],
     [tag |-> <<"j", "s", "o", "n">>, lead |-> <<"\n", " ">>, gap |-> <<"\n">>,
      trail |-> <<" ", "\n">>]}

PlainJson(x) == Dumps(x)

FencedJson(x, form) ==
    form.lead \o Fence \o form.tag \o <<"\n">> \o Dumps(x) \o form.gap \o Fence
    \o form.trail

TextQuote == <<"I", " ", "d", "o", "n", "'", "t">>

TextScript == <<"<", "s", "c", "r", "i", "p", "t", ">">>

\* Every field present, risk flagged.
ResFull ==
    JObj((K_risk_detected :> JBool(TRUE)) @@ (K_risk_content :> JStr(TextQuote))
         @@ (K_hot_thought :> JStr(<<"h">>)) @@ (K_maintenance_cycle :> JStr(<<"m">>))
         @@ (K_safety_behaviours :> JStr(<<"s">>))
         @@ (K_soap_note :> JObj((K_subjective :> JStr(<<"a">>))
                                 @@ (K_objective :> JStr(<<"b">>))
                                 @@ (K_assessment :> JStr(<<"c">>))
                                 @@ (K_plan :> JStr(<<"d">>))))
         @@ (K_gp_letter :> JStr(TextScript)) @@ (K_risk_summary :> JStr(<<"r">>)))

\* No risk, some fields left out.
ResSafe ==
    JObj((K_risk_detected :> JBool(FALSE)) @@ (K_risk_content :> JNull)
         @@ (K_hot_thought :> JStr(<<"h">>))
         @@ (K_soap_note :> JObj(K_subjective :> JStr(<<"a", " ", "&", " ", "b">>)))
         @@ (K_gp_letter :> JStr(<<"g">>)))

ResEmpty == JObj(<<>>)

\* Every field null.
ResNulls ==
    JObj((K_risk_detected :> JNull) @@ (K_risk_content :> JNull)
         @@ (K_hot_thought :> JNull) @@ (K_maintenance_cycle :> JNull)
         @@ (K_safety_behaviours :> JNull) @@ (K_soap_note :> JNull)
         @@ (K_gp_letter :> JNull) @@ (K_risk_summary :> JNull))

\* soap_note present with every field of it null or missing.
ResSoapNulls ==
    JObj((K_risk_detected :> JBool(FALSE))
         @@ (K_soap_note :> JObj((K_subjective :> JNull) @@ (K_plan :> JNull)))
         @@ (K_gp_letter :> JNull) @@ (K_risk_summary :> JNull)
         @@ (K_hot_thought :> JNull))

ResBare == JObj(K_risk_detected :> JBool(FALSE))

ResRiskNoQuote == JObj(K_risk_detected :> JBool(TRUE))

ResRiskNullQuote == JObj((K_risk_detected :> JBool(TRUE)) @@ (K_risk_content :> JNull))

ResRiskSoapNull == JObj((K_risk_detected :> JBool(TRUE)) @@ (K_soap_note :> JNull))

ResRiskString == JObj(K_risk_detected :> JStr(LitFalse))

ResRiskEmptyString == JObj(K_risk_detected :> JStr(<<>>))

ResQuoteNoRisk ==
    JObj((K_risk_content :> JStr(TextQuote)) @@ (K_risk_summary :> JStr(<<"r">>)))

\* A string that holds a fence.
ResFenceInside == JObj((K_risk_detected :> JBool(FALSE)) @@ (K_gp_letter :> JStr(Fence)))

ClinicalResults ==
    {ResFull, ResSafe, ResEmpty, ResNulls, ResSoapNulls, ResBare, ResRiskNoQuote,
     ResRiskNullQuote, ResRiskSoapNull, ResRiskString, ResRiskEmptyString,
     ResQuoteNoRisk, ResFenceInside}

\* JSON values that are not objects.
NonObjects == {JArr(<<>>), JArr(<<JStr(<<"x">>)>>), JNull, JBool(TRUE), JStr(<<"x">>)}

ReplyEmpty == <<>>

ReplyBlank == <<" ", "\n">>

\* Text that is not JSON.
ReplyProse == <<"S", "o", "r", "r", "y", ".">>

\* JSON cut short.
ReplyTruncated == SubSeq(Dumps(ResRiskNullQuote), 1, Len(Dumps(ResRiskNullQuote)) - 3)

\* A fence with no line break after it: a one-line fenced reply, a bare fence.
ReplyOneLineFence == Fence \o Dumps(ResBare) \o Fence

ReplyBareFence == Fence

\* A fence around nothing.
ReplyHollowFence == Fence \o <<"\n">> \o Fence

MalformedReplies ==
    {ReplyEmpty, ReplyBlank, ReplyProse, ReplyTruncated, ReplyOneLineFence,
     ReplyBareFence, ReplyHollowFence}

\* The replies of a session that is followed over many submissions: two
\* results, one plain and one fenced, and two replies that do not decode.
SessionReplies ==
    {PlainJson(ResRiskNoQuote),
     FencedJson(ResBare, [tag |-> <<"j", "s", "o", "n">>, lead |-> <<>>,
                          gap |-> <<"\n">>, trail |-> <<>>]),
     ReplyTruncated, ReplyOneLineFence}

\* The replies tried on the first submissions of a session.
AllReplies ==
    {PlainJson(x) : x \in ClinicalResults \cup NonObjects}
    \cup {FencedJson(x, f) : x \in ClinicalResults, f \in FenceForms}
    \cup MalformedReplies

-----------------------------------------------------------------------------
(* The session and the runs of the script.                                 *)
(*                                                                         *)
(*   history      st.session_state.history                                 *)
(*   last_result  st.session_state.last_result                             *)
(*   page         what the last run read and showed: the button that was   *)
(*                pressed, the widget values it read, the completion call  *)
(*                it made and the reply it got, the st.error it wrote      *)
(*   returned     the results of the submissions that succeeded, in order  *)
(*                (kept by the observer, not by the script)                *)

\* How many entries the sidebar lists (line 572).
HistoryLimit == 5

\* The longest history followed.
MaxHistory == 6

\* The longest history followed when every reply is tried.
MaxReplyHistory == 1

NoKey == <<>>

ApiKeys == {NoKey, <<"s", "k">>}

Transcripts == {<<>>, <<" ", "\n">>, <<"T">>}

\* datetime.now().strftime("%H:%M")
Times == {"09:41"}

NoCall == [kind |-> "none", text |-> <<>>]

\* What client.messages.create and response.content[0].text come to: an
\* exception of the client, a response with no content block, or a text.
CallFailures ==
    {[kind |-> "AuthenticationError", text |-> <<>>],
     [kind |-> "APIConnectionError", text |-> <<>>],
     [kind |-> "IndexError", text |-> <<>>]}

Outcomes(replies) == CallFailures \cup {[kind |-> "text", text |-> r] : r \in replies}

Page(op, key, transcript, selected, calls, response, error, exception) ==
    [op |-> op, api_key |-> key, transcript |-> transcript, selected |-> selected,
     calls |-> calls, response |-> response, error |-> error,
     exception |-> exception]

\* A run that makes no submission reads no widget value and calls nothing.
QuietPage(op, selected) == Page(op, NoKey, <<>>, selected, 0, NoCall, "none", "none")

\* Lines 539-542
Init ==
    /\ history = <<>>
    /\ last_result = None
    /\ page = QuietPage("start", -1)
    /\ returned = <<>>

\* history[-n:]
LastN(h, n) == SubSeq(h, IF Len(h) > n THEN Len(h) - n + 1 ELSE 1, Len(h))

\* reversed(h)
Reversed(h) == [i \in 1..Len(h) |-> h[Len(h) + 1 - i]]

\* Recent without the reversal.
RecentOldestFirst(h) == LastN(h, HistoryLimit)

\* Line 572: the entries the sidebar lists, in the order of their buttons.
Recent(h) == Reversed(LastN(h, HistoryLimit))

\* Store putting the new entry first.
StoreAtFront(result, now) ==
    /\ last_result' = result
    /\ history' = <<[time |-> now, result |-> result]>> \o history

\* Lines 666-670: the result becomes current and is appended.
Store(result, now) ==
    /\ last_result' = result
    /\ history' = Append(history, [time |-> now, result |-> result])

\* ParseResponse of every reply, worked out once.
Decoded ==
    [r \in AllReplies \cup SessionReplies \cup {NoCall.text} |-> ParseResponse(r)] @@ <<>>

\* Validate without the strip().
ValidateUnstripped(key, transcript) ==
    IF key = NoKey THEN "api_key"
    ELSE IF transcript = <<>> THEN "transcript"
    ELSE "none"

\* Lines 645-648: the st.error that ends the run before any call, or "none".
Validate(key, transcript) ==
    IF key = NoKey THEN "api_key"
    ELSE IF Strip(transcript) = <<>> THEN "transcript"
    ELSE "none"

\* ShowError dropping the current result as well.
ShowErrorAndClear(shown) ==
    /\ page' = shown
    /\ last_result' = None
    /\ UNCHANGED <<history, returned>>

\* Lines 646, 648, 673, 675: st.error; the session is left as it is.
ShowError(shown) ==
    /\ page' = shown
    /\ UNCHANGED <<history, last_result, returned>>

\* Lines 644-675: a run with "Generate Clinical Documentation" pressed, the
\* widgets holding key and transcript, the completion call (if made) coming
\* to outcome, the clock reading now.
GenerationRun(key, transcript, outcome, now) ==
    LET invalid == Validate(key, transcript)
        parsed == Decoded[outcome.text]
        Ran(error, exception) ==
            Page("submit", key, transcript, -1, 1, outcome, error, exception)
    IN  IF invalid # "none" THEN
            ShowError(Page("submit", key, transcript, -1, 0, NoCall, invalid, "none"))
        ELSE IF outcome.kind # "text" THEN
            ShowError(Ran("exception", outcome.kind))
        ELSE IF parsed.exc = "JSONDecodeError" THEN
            ShowError(Ran("format", parsed.exc))
        ELSE IF parsed.exc # "none" THEN
            ShowError(Ran("exception", parsed.exc))
        ELSE
            /\ page' = Ran("none", "none")
            /\ Store(parsed.result, now)
            /\ returned' = Append(returned, parsed.result)

\* A submission with any widget values, any outcome among those of replies.
Generate(replies, bound) ==
    \E key \in ApiKeys, transcript \in Transcripts, now \in Times :
        \E outcome \in (IF Validate(key, transcript) = "none"
                        THEN Outcomes(replies) ELSE {NoCall}) :
            /\ GenerationRun(key, transcript, outcome, now)
            /\ Len(history') <= bound

\* SelectHistory counting the buttons from the oldest entry.
SelectOldestFirst(i) ==
    /\ history # <<>>
    /\ i + 1 <= Len(Recent(history))
    /\ last_result' = history[i + 1].result
    /\ page' = QuietPage("select", i)
    /\ UNCHANGED <<history, returned>>

\* Lines 571-574: a run with the sidebar button hist_i pressed.
SelectHistory(i) ==
    /\ history # <<>>
    /\ i + 1 <= Len(Recent(history))
    /\ last_result' = Recent(history)[i + 1].result
    /\ page' = QuietPage("select", i)
    /\ UNCHANGED <<history, returned>>

\* A "+ New Session" that empties the history as well.
NewSessionClearsHistory ==
    /\ last_result # None
    /\ last_result' = None
    /\ history' = <<>>
    /\ page' = QuietPage("new_session", -1)
    /\ UNCHANGED returned

\* Lines 559-562: a run with "+ New Session" pressed, and the rerun it asks
\* for.
NewSession ==
    /\ last_result # None
    /\ last_result' = None
    /\ page' = QuietPage("new_session", -1)
    /\ UNCHANGED <<history, returned>>

Submit == Generate(SessionReplies, MaxHistory)

Select == \E i \in 0..(HistoryLimit - 1) : SelectHistory(i)

Next == Submit \/ Select \/ NewSession

Spec == Init /\ [][Next]_vars

\* The first submissions of a session, over every reply.
SubmitAny == Generate(AllReplies, MaxReplyHistory)

NextReplies == SubmitAny \/ Select \/ NewSession

SpecReplies == Init /\ [][NextReplies]_vars

\* What the page shows below the input.
View == Render(last_result)

-----------------------------------------------------------------------------
(* Properties.  A submission is a run whose page.op is "submit"; it        *)
(* succeeded when the run wrote no st.error.                               *)

Submitted(p) == p.op = "submit"

Succeeded(p) == p.op = "submit" /\ p.error = "none"

Called(p) == p.op = "submit" /\ p.calls > 0 /\ p.response.kind = "text"

\* Empty or made of whitespace only.
IsBlank(t) == \A i \in 1..Len(t) : t[i] \in PyWhitespace

\* The reply decodes to a JSON object.
DecodesToObject(text) == Decoded[text].exc = "none" /\ IsDict(Decoded[text].result)

\* C1: a submit that ends in an error (a validation failure, a failure of
\* the completion call, or a reply that does not decode to a JSON object)
\* leaves the history and the current result as they were.
C1_FailedSubmitStoresNothing ==
    [][(/\ Submitted(page')
        /\ \/ page'.error # "none"
           \/ page'.response.kind # "text"
           \/ ~DecodesToObject(page'.response.text))
       => (history' = history /\ last_result' = last_result)]_vars

\* C2: a submit with a blank transcript or no credential writes a
\* validation error and makes no completion call; a completion call is made
\* only with a credential and a transcript that is not blank.
C2_ValidationBeforeCall ==
    Submitted(page) =>
        /\ (page.api_key = NoKey \/ IsBlank(page.transcript))
              => (page.error \in {"api_key", "transcript"} /\ page.calls = 0
                  /\ page.response = NoCall)
        /\ page.calls > 0 => (page.api_key # NoKey /\ ~IsBlank(page.transcript))

\* A whitespace-only transcript turned down in a session that already holds
\* a result.
C2_Witness ==
    /\ Submitted(page) /\ page.api_key # NoKey
    /\ page.transcript # <<>> /\ IsBlank(page.transcript)
    /\ page.error = "transcript" /\ history # <<>>

\* C3: a successful submit appends one entry, holding the decoded result,
\* at the end of the history and makes that result the current one.
C3_SuccessAppendsOne ==
    [][Succeeded(page')
       => (/\ Len(history') = Len(history) + 1
           /\ SubSeq(history', 1, Len(history)) = history
           /\ history'[Len(history')].result = Decoded[page'.response.text].result
           /\ last_result' = history'[Len(history')].result)]_vars

\* The first successful submit: one entry, and it is the current result.
C3_Witness ==
    /\ Succeeded(page) /\ Len(history) = 1
    /\ last_result = ResRiskNoQuote /\ history[1].result = ResRiskNoQuote
    /\ Truthy(Get(last_result, K_risk_detected, None))

\* The replies C4 names: the empty string, text that is not JSON, JSON
\* values that are not objects, JSON cut short.
C4_Inputs ==
    {ReplyEmpty, ReplyProse, ReplyTruncated} \cup {PlainJson(x) : x \in NonObjects}

\* C4: each of these replies ends the submit with the "unexpected format"
\* error, and nothing is stored for it.
C4_MalformedRepliesFail ==
    [][(Called(page') /\ page'.response.text \in C4_Inputs)
       => (/\ page'.error = "format"
           /\ history' = history /\ last_result' = last_result)]_vars

\* C5: after N successful submissions the sidebar lists min(N, 5) entries,
\* the N-th result first, then the (N-1)-th, ...; and the history still
\* holds every result, in the order returned.
C5_RecentListsLastFive ==
    LET shown == Recent(history)
        N == Len(returned)
    IN  /\ Len(shown) = IF N < 5 THEN N ELSE 5
        /\ \A i \in 1..Len(shown) : shown[i].result = returned[N + 1 - i]
        /\ Len(history) = N
        /\ \A i \in 1..N : history[i].result = returned[i]

\* More than five successes, the last two differing, then a failed submit.
C5_Witness ==
    /\ Len(returned) = 6 /\ returned[6] # returned[5]
    /\ Submitted(page) /\ page.error = "format"
    /\ Len(Recent(history)) = 5 /\ Recent(history)[1].result = returned[6]

\* Each fenced reply with the plain reply and the result it is written from.
FenceCases ==
    {<<FencedJson(x, f), PlainJson(x), x>> : x \in ClinicalResults, f \in FenceForms}

\* C6: a fenced reply decodes as the plain JSON inside it does.
C6_FenceIsTransparent ==
    \A c \in FenceCases :
        (Called(page) /\ page.response.text = c[1])
        => (/\ page.error = "none"
            /\ Decoded[c[2]].exc = "none"
            /\ last_result = Decoded[c[2]].result
            /\ last_result = c[3]
            /\ history[Len(history)].result = last_result)

\* A fenced reply, with a language tag and whitespace around it, whose JSON
\* holds a fence itself.
C6_Witness ==
    /\ Called(page)
    /\ \E f \in FenceForms :
          /\ f.lead # <<>> /\ f.tag # <<>>
          /\ page.response.text = FencedJson(ResFenceInside, f)
    /\ last_result = ResFenceInside

\* risk_detected is the boolean true.
RiskFlagged(r) == Get(r, K_risk_detected, None) = JBool(TRUE)

\* C7: for a current result, the banner is written exactly when
\* risk_detected is true, and the badge is the risk badge then and the safe
\* badge otherwise.
C7_BannerIffRiskTrue ==
    IsDict(last_result) =>
        /\ View.banner <=> RiskFlagged(last_result)
        /\ View.badge = IF RiskFlagged(last_result) THEN "risk" ELSE "safe"

\* What a field that is missing or null is to be shown as.
ShownAs(d, key, shown) == Get(d, key, None) = None => shown = Placeholder

\* C8: for a current result the rendering raises nothing, writes the four
\* cards, and shows every missing or null field as the placeholder.
C8_MissingFieldsArePlaceholders ==
    IsDict(last_result) =>
        LET soap == Get(last_result, K_soap_note, None)
            fields == IF IsDict(soap) THEN soap ELSE JObj(<<>>)
        IN  /\ View.exception = "none"
            /\ View.soap_card /\ View.gp_card /\ View.formulation_card /\ View.risk_card
            /\ ShownAs(fields, K_subjective, View.subjective)
            /\ ShownAs(fields, K_objective, View.objective)
            /\ ShownAs(fields, K_assessment, View.assessment)
            /\ ShownAs(fields, K_plan, View.plan)
            /\ ShownAs(last_result, K_gp_letter, View.gp_letter)
            /\ ShownAs(last_result, K_hot_thought, View.hot_thought)
            /\ ShownAs(last_result, K_maintenance_cycle, View.maintenance_cycle)
            /\ ShownAs(last_result, K_safety_behaviours, View.safety_behaviours)
            /\ ShownAs(last_result, K_risk_summary, View.risk_summary)

\* C9 as stated: once a submit has succeeded, there is a current result.
C9_CurrentAfterSuccess == returned # <<>> => last_result # None

\* C9 as amended: there is no current result before the first successful
\* submit; a successful submit makes its result current; and a current
\* result is given up only by "+ New Session", or for an entry whose result
\* is itself None.
C9_CurrentUntilNewSession ==
    [][/\ returned' = <<>> => last_result' = None
       /\ Succeeded(page') => last_result' = returned'[Len(returned')]
       /\ (last_result # None /\ last_result' = None)
              => \/ page'.op = "new_session"
                 \/ Succeeded(page') /\ returned'[Len(returned')] = None
                 \/ /\ page'.op = "select"
                    /\ history[Len(history) - page'.selected].result = None]_vars

\* "+ New Session" after a success: results in the history, none current.
C9_Witness ==
    /\ page.op = "new_session" /\ last_result = None
    /\ returned # <<>> /\ history # <<>> /\ returned[Len(returned)] # None

\* C10: pressing the i-th button of the sidebar (0 the most recent entry)
\* makes that entry's result current, leaves the history as it was and
\* calls nothing.
C10_SelectOnlyMovesCurrent ==
    [][page'.op = "select"
       => (/\ page'.selected \in 0..4
           /\ page'.selected < Len(history)
           /\ last_result' = history[Len(history) - page'.selected].result
           /\ history' = history /\ returned' = returned
           /\ page'.calls = 0 /\ page'.response = NoCall)]_vars

\* The last button pressed with six entries: the second entry, not the
\* first and not the newest, becomes current.
C10_Witness ==
    /\ page.op = "select" /\ page.selected = 4 /\ Len(history) = 6
    /\ last_result = history[2].result
    /\ last_result # history[6].result /\ last_result # history[1].result

\* C11: the history is append-only.  Every run (a submit that succeeds or
\* fails, a history selection, "+ New Session") leaves the history it found
\* as a prefix of the history it leaves: no entry is removed, moved or has
\* its time or result changed.
C11_HistoryAppendOnly ==
    [][/\ Len(history') >= Len(history)
       /\ SubSeq(history', 1, Len(history)) = history]_vars

\* "+ New Session" pressed with three entries stored, the first two with
\* different results: the entries are still the results returned, in order.
C11_Witness ==
    /\ page.op = "new_session" /\ last_result = None
    /\ Len(history) = 3 /\ history[1].result # history[2].result
    /\ \A i \in 1..3 : history[i].result = returned[i]

\* C12: with risk_detected true the banner is written and quotes the
\* escaped risk_content when there is one, and the fallback string when
\* risk_content is missing or null.
C12_RiskQuoteOrFallback ==
    (IsDict(last_result) /\ RiskFlagged(last_result)) =>
        LET quote == Get(last_result, K_risk_content, None)
        IN  /\ View.banner
            /\ View.risk_quote = IF quote = None THEN RiskFallback
                                  ELSE HtmlEscape(PyStr(quote))

\* The reply raised while it was decoded: the fence stripping or json.loads.
DecodeFailed(p) == Called(p) /\ Decoded[p.response.text].exc # "none"

\* C13: a submit whose reply fails to decode, a fenced reply with no line
\* break after the fence included, ends with the generic "unexpected
\* format" error and not with the error that carries the exception's text.
C13_DecodeFailuresAreFormatErrors ==
    DecodeFailed(page) => (page.error = "format" /\ page.error # "exception")

=============================================================================
